---- MODULE Spec2Model ----
(***************************************************************************)
(* meta-dds: package_manifest::load, the walk of a parsed                  *)
(* meta_package.json5 document (a json5::data tree) that fills a           *)
(* package_manifest or fails with one error.                               *)
(*                                                                         *)
(* A JSON string is a sequence of tokens (a name, the delimiter "@", a     *)
(* version-range expression), so that splitting a specifier string and     *)
(* pairing an object key with its value are different computations.        *)
(* An object is the sequence of its entries in the order the mapping       *)
(* iterates them; an array is the sequence of its elements.                *)
(*                                                                         *)
(* Inputs: the root is an object whose keys are among depends,             *)
(* test_depends and meta_dds, and meta_dds, when present, is an object     *)
(* whose keys are among depends and test_depends.                          *)
(***************************************************************************)
EXTENDS Integers, Sequences, FiniteSets, TLC

\* Bound: the size of a document, one for every dependency-list key that is
\* present plus one for every array element (an object element counts one
\* per entry, and one when it is empty).
MaxSize == 3

----------------------------------------------------------------------------
(* json5::data nodes *)

Node(t, s, xs) == [tag |-> t, str |-> s, items |-> xs]
Str(s)    == Node("string", s, <<>>)
Scalar(t) == Node(t, <<>>, <<>>)
Arr(xs)   == Node("array", <<>>, xs)
Obj(es)   == Node("object", <<>>, es)
Entry(k, v) == [key |-> k, val |-> v]

is_string(dat) == dat.tag = "string"
is_object(dat) == dat.tag = "object"
is_array(dat)  == dat.tag = "array"

----------------------------------------------------------------------------
(* The external grammars the load calls *)

\* The version-range expressions the range grammar accepts, with the
\* [low, high) bound it returns for each.
RangeTable ==
    [v \in {"1.0.0", "2.0.0"} |->
        IF v = "1.0.0" THEN [low |-> <<1, 0, 0>>, high |-> <<2, 0, 0>>]
                       ELSE [low |-> <<2, 0, 0>>, high |-> <<3, 0, 0>>]]

\* semver::range::parse_restricted: a bound, or semver::invalid_range.
parse_restricted(s) ==
    IF Len(s) = 1 /\ s[1] \in DOMAIN RangeTable
    THEN [ok |-> TRUE, low |-> RangeTable[s[1]].low, high |-> RangeTable[s[1]].high]
    ELSE [ok |-> FALSE, low |-> <<>>, high |-> <<>>]

Dependency(name, rng) == [name |-> name, low |-> rng.low, high |-> rng.high]
NoDep == [name |-> <<>>, low |-> <<>>, high |-> <<>>]

\* Exceptions and the errors a caller receives.
NoError == [type |-> "none", errc |-> "none", msg |-> <<>>]
walk_error(msg) == [type |-> "walk_error", errc |-> "none", msg |-> msg]
user_error(errc, msg) == [type |-> "user_error", errc |-> errc, msg |-> msg]

\* Position of the first delimiter of a specifier string, 0 when it has none.
RECURSIVE FindSep(_, _)
FindSep(s, i) ==
    IF i > Len(s) THEN 0
    ELSE IF s[i] = "@" THEN i
    ELSE FindSep(s, i + 1)

\* dds::dependency::parse_depends_string: "<name>@<range>".
parse_depends_string(s) ==
    LET sep == FindSep(s, 1) IN
    IF sep = 0
    THEN [ok |-> FALSE, dep |-> NoDep,
          err |-> user_error("invalid_dependency_specifier_string",
                             <<"Invalid dependency string">> \o s)]
    ELSE LET name == SubSeq(s, 1, sep - 1)
             rstr == SubSeq(s, sep + 1, Len(s))
             rng  == parse_restricted(rstr)
         IN IF rng.ok
            THEN [ok |-> TRUE, dep |-> Dependency(name, rng), err |-> NoError]
            ELSE [ok |-> FALSE, dep |-> NoDep,
                  err |-> user_error("invalid_version_range_string",
                                     <<"Invalid version range string">> \o rstr
                                     \o <<"in dependency string">> \o s)]

----------------------------------------------------------------------------
(* package_manifest and the handlers of package_manifest::load *)

EmptyManifest ==
    [depends |-> <<>>, test_depends |-> <<>>,
     meta_depends |-> <<>>, meta_test_depends |-> <<>>]

\* meta_dependency: a dependency with its cmake_config pairs.
MetaDep(dep, cfg) == [dep |-> dep, cmake_config |-> cfg]

\* What a handler hands back to the walk: walk.accept, a walk.reject that the
\* walk throws as semester::walk_error, or an exception thrown in the handler.
Accept(r)    == [res |-> "accept", ret |-> r, err |-> NoError]
Failed(r, e) == [res |-> "fail", ret |-> r, err |-> e]

ValuesShouldBeStrings == <<"Dependency object values should be strings">>

InvalidRange(rstr, key) ==
    user_error("invalid_version_range_string",
               <<"Invalid version range string">> \o rstr \o
               <<"in dependency declaration for">> \o key)

\* push_depends_obj_kv with the invalid range turned into a walk.reject.
push_depends_obj_kv_Rejects(r, key, dat) ==
    IF ~is_string(dat)
    THEN Failed(r, walk_error(ValuesShouldBeStrings))
    ELSE LET rng == parse_restricted(dat.str) IN
         IF rng.ok
         THEN Accept([r EXCEPT !.depends = Append(@, Dependency(key, rng))])
         ELSE Failed(r, walk_error(InvalidRange(dat.str, key).msg))

\* push_depends_obj_kv: one entry of a dependency object.
push_depends_obj_kv(r, key, dat) ==
    IF ~is_string(dat)
    THEN Failed(r, walk_error(ValuesShouldBeStrings))
    ELSE LET rng == parse_restricted(dat.str) IN
         IF rng.ok
         THEN Accept([r EXCEPT !.depends = Append(@, Dependency(key, rng))])
         ELSE Failed(r, InvalidRange(dat.str, key))

\* mapping{push_depends_obj_kv}: every entry in turn, stopping at the first
\* that does not accept.
RECURSIVE mapping_entries(_, _, _)
mapping_entries(r, es, i) ==
    IF i > Len(es) THEN Accept(r)
    ELSE LET h == push_depends_obj_kv(r, es[i].key, es[i].val) IN
         IF h.res = "accept" THEN mapping_entries(h.ret, es, i + 1) ELSE h

str_to_dependency(s) == parse_depends_string(s)

\* What std::back_inserter(depends) stores for a converted dependency.
Stored(target, dep) ==
    IF target \in {"meta_depends", "meta_test_depends"}
    THEN MetaDep(dep, <<>>) ELSE dep

\* put_into with a front inserter.
put_into_Front(r, target, dat) ==
    LET p == str_to_dependency(dat.str) IN
    IF p.ok
    THEN Accept([r EXCEPT ![target] = <<Stored(target, p.dep)>> \o @])
    ELSE Failed(r, p.err)

\* put_into{std::back_inserter(depends), str_to_dependency}
put_into(r, target, dat) ==
    LET p == str_to_dependency(dat.str) IN
    IF p.ok
    THEN Accept([r EXCEPT ![target] = Append(@, Stored(target, p.dep))])
    ELSE Failed(r, p.err)

StringsOrObjects(key_name) ==
    <<key_name, "should be an array of strings or objects">>

\* dependency without its last branch: other elements are passed over.
dependency_SkipsOthers(r, target, key_name, dat) ==
    IF is_object(dat) THEN mapping_entries(r, dat.items, 1)
    ELSE IF is_string(dat) THEN put_into(r, target, dat)
    ELSE Accept(r)

\* The element handler dependency(depends, key_name).
dependency(r, target, key_name, dat) ==
    IF is_object(dat) THEN mapping_entries(r, dat.items, 1)
    ELSE IF is_string(dat) THEN put_into(r, target, dat)
    ELSE Failed(r, walk_error(StringsOrObjects(key_name)))

\* The element handler meta_dependency(depends, key_name).
meta_dependency(r, target, key_name, dat) ==
    IF is_object(dat) THEN mapping_entries(r, dat.items, 1)
    ELSE IF is_string(dat) THEN put_into(r, target, dat)
    ELSE Failed(r, walk_error(StringsOrObjects(key_name)))

ShouldBeArray(key_name) ==
    <<key_name, "should be an array of dependencies">>

MissingMetaDds ==
    <<"Do you really need meta-dds? Consider using dds proper. If you need the build script, add an empty",
      "meta_dds", ": {} object in your meta_package.json5">>

----------------------------------------------------------------------------
(* The walk, as a frame of package_manifest::load stepping over the data *)

Outcome(m, e) == [manifest |-> m, err |-> e]

StartFrame ==
    [ret |-> EmptyManifest, pc |-> "root", ri |-> 1, ni |-> 0, ei |-> 0,
     seen |-> FALSE, thrown |-> NoError, raised |-> 0,
     outcome |-> Outcome(<<>>, <<>>)]

\* The entry the walk stands at: a root entry, or an entry of meta_dds.
CurEntry(d, s) ==
    IF s.ni = 0 THEN d[s.ri] ELSE d[s.ri].val.items[s.ni]

InNested(s) == s.ni > 0

\* The manifest field and the key name the schema binds to the current entry.
Target(d, s) ==
    IF InNested(s) THEN
        (IF CurEntry(d, s).key = "depends" THEN "meta_depends" ELSE "meta_test_depends")
    ELSE CurEntry(d, s).key

KeyName(d, s) ==
    IF InNested(s) THEN
        (IF CurEntry(d, s).key = "depends" THEN "meta_dds.depends"
                                           ELSE "meta_dds.test_depends")
    ELSE CurEntry(d, s).key

\* A rejection or an exception leaves the walk.
Throw(s, e) == [s EXCEPT !.pc = "threw", !.thrown = e, !.raised = @ + 1]

\* if_key without require_array.
if_key_NoRequireArray(d, s) == [s EXCEPT !.pc = "for_each", !.ei = 1]

\* if_key{key, require_array{...}, for_each{...}}: the key's value must be
\* an array, whose elements the walk then visits.
if_key(d, s) ==
    IF ~is_array(CurEntry(d, s).val)
    THEN Throw(s, walk_error(ShouldBeArray(KeyName(d, s))))
    ELSE [s EXCEPT !.pc = "for_each", !.ei = 1]

\* required_key{"meta_dds", ..., mapping{...}}: the key is seen, and the walk
\* enters its mapping.
required_key(d, s) ==
    [s EXCEPT !.seen = TRUE, !.pc = "nested", !.ni = 1]

\* for_each that notes a failure and goes on to the next element.
for_each_next_Continues(s, h) ==
    IF h.res = "accept"
    THEN [s EXCEPT !.ret = h.ret, !.ei = @ + 1]
    ELSE [s EXCEPT !.ret = h.ret, !.ei = @ + 1, !.thrown = h.err, !.raised = @ + 1]

\* for_each: how the walk goes on after the handler of one element.
for_each_next(s, h) ==
    IF h.res = "accept"
    THEN [s EXCEPT !.ret = h.ret, !.ei = @ + 1]
    ELSE Throw([s EXCEPT !.ret = h.ret], h.err)

\* for_each{dependency(...)} / for_each{meta_dependency(...)} on one element.
for_each(d, s) ==
    LET dat == CurEntry(d, s).val.items[s.ei] IN
    for_each_next(s,
        IF InNested(s)
        THEN meta_dependency(s.ret, Target(d, s), KeyName(d, s), dat)
        ELSE dependency(s.ret, Target(d, s), KeyName(d, s), dat))

\* The array is exhausted: on to the next entry of the enclosing mapping.
for_each_end(d, s) ==
    IF InNested(s)
    THEN [s EXCEPT !.pc = "nested", !.ni = @ + 1, !.ei = 0]
    ELSE [s EXCEPT !.pc = "root", !.ri = @ + 1, !.ei = 0]

\* The mapping of meta_dds is exhausted.
nested_end(d, s) == [s EXCEPT !.pc = "root", !.ri = @ + 1, !.ni = 0]

\* The end of the root mapping without the check of the required key.
mapping_end_NotRequired(d, s) ==
    [s EXCEPT !.pc = "done", !.outcome = Outcome(<<s.ret>>, <<>>)]

\* The root mapping is exhausted: a required key never seen rejects,
\* otherwise the walk returns and load returns ret.
mapping_end(d, s) ==
    IF ~s.seen
    THEN Throw(s, walk_error(MissingMetaDds))
    ELSE [s EXCEPT !.pc = "done", !.outcome = Outcome(<<s.ret>>, <<>>)]

\* catch (const semester::walk_error&): rethrown as invalid_pkg_manifest;
\* any other exception leaves load as it is.
catch(d, s) ==
    [s EXCEPT !.pc = "done",
              !.outcome = Outcome(<<>>,
                  <<IF s.thrown.type = "walk_error"
                    THEN user_error("invalid_pkg_manifest", s.thrown.msg)
                    ELSE s.thrown>>)]

AtRootEntry(d, s)   == s.pc = "root" /\ s.ri <= Len(d)
AtListKey(d, s)     == \/ AtRootEntry(d, s) /\ d[s.ri].key # "meta_dds"
                       \/ s.pc = "nested" /\ s.ni <= Len(d[s.ri].val.items)
AtMetaDds(d, s)     == AtRootEntry(d, s) /\ d[s.ri].key = "meta_dds"
AtElement(d, s)     == s.pc = "for_each" /\ s.ei <= Len(CurEntry(d, s).val.items)
AtArrayEnd(d, s)    == s.pc = "for_each" /\ s.ei > Len(CurEntry(d, s).val.items)
AtNestedEnd(d, s)   == s.pc = "nested" /\ s.ni > Len(d[s.ri].val.items)
AtRootEnd(d, s)     == s.pc = "root" /\ s.ri > Len(d)

\* One step of the load.
Step(d, s) ==
    IF AtListKey(d, s) THEN if_key(d, s)
    ELSE IF AtMetaDds(d, s) THEN required_key(d, s)
    ELSE IF AtElement(d, s) THEN for_each(d, s)
    ELSE IF AtArrayEnd(d, s) THEN for_each_end(d, s)
    ELSE IF AtNestedEnd(d, s) THEN nested_end(d, s)
    ELSE IF AtRootEnd(d, s) THEN mapping_end(d, s)
    ELSE IF s.pc = "threw" THEN catch(d, s)
    ELSE s

\* package_manifest::load(data): the frame run to its end.
RECURSIVE Run(_, _)
Run(d, s) == IF s.pc = "done" THEN s ELSE Run(d, Step(d, s))

load(d) == Run(d, StartFrame).outcome

----------------------------------------------------------------------------
(* The documents a load is given *)

Names == {<<"a">>, <<"b">>}

StringElems ==
    {Str(<<"a", "@", "1.0.0">>), Str(<<"b", "@", "2.0.0">>), Str(<<"b", "@", "bad">>)}

OtherElems == {Scalar("number"), Scalar("bool"), Scalar("null"), Arr(<<>>)}

EntryVals == {Str(<<"2.0.0">>), Str(<<"bad">>), Scalar("number")}

Entries == {Entry(k, v) : k \in Names, v \in EntryVals}

\* The values of a dependency-list key that are not arrays.
NonArrays ==
    {Str(<<"a", "@", "1.0.0">>), Scalar("number"), Scalar("bool"), Scalar("null"),
     Obj(<<>>)}

\* The array elements of size k >= 1.
ElemsOfSize(k) ==
    IF k = 1
    THEN StringElems \cup OtherElems \cup {Obj(<<>>)} \cup {Obj(<<e>>) : e \in Entries}
    ELSE {Obj(es) : es \in [1..k -> Entries]}

\* The arrays whose elements have total size k.
RECURSIVE ArraysOfSize(_)
ArraysOfSize(k) ==
    IF k = 0 THEN {<<>>}
    ELSE UNION {{<<e>> \o rest : e \in ElemsOfSize(j), rest \in ArraysOfSize(k - j)}
                : j \in 1..k}

Absent == Scalar("absent")

\* The values of a dependency-list key of cost c; cost 0 is the absent key.
ListVals(c) ==
    IF c = 0 THEN {Absent}
    ELSE {Arr(a) : a \in ArraysOfSize(c - 1)} \cup (IF c = 1 THEN NonArrays ELSE {})

\* The orders in which a mapping may hold the keys of S.
Orders(S) == {o \in [1..Cardinality(S) -> S] : \A i, j \in DOMAIN o : i # j => o[i] # o[j]}

\* The entries of an object, in order o, for the values vals gives its keys.
EntriesOf(o, vals) == [i \in DOMAIN o |-> Entry(o[i], vals[o[i]])]

PresentKeys(vals) == {k \in DOMAIN vals : vals[k] # Absent}

\* The root objects made of the list values d, t (root) and md, mt (under
\* meta_dds); meta_dds itself is present when hasMeta.
Documents(d, t, md, mt, hasMeta) ==
    LET nvals == [depends |-> md, test_depends |-> mt]
        metas == IF hasMeta
                 THEN {Obj(EntriesOf(o, nvals)) : o \in Orders(PresentKeys(nvals))}
                 ELSE {Absent}
    IN UNION {
         LET rvals == [depends |-> d, test_depends |-> t, meta_dds |-> m]
         IN {EntriesOf(o, rvals) : o \in Orders(PresentKeys(rvals))}
         : m \in metas}

Costs == {c \in [1..4 -> 0..MaxSize] : c[1] + c[2] + c[3] + c[4] <= MaxSize}

----------------------------------------------------------------------------
(* The state machine: one load of one document *)

VARIABLES
    data,      \* the json5::data the load is given, the entries of the root object
    ret,       \* package_manifest ret, the manifest in progress
    pc,        \* where the load stands: "root", "nested", "for_each", "threw", "done"
    ri,        \* the root entry the mapping stands at
    ni,        \* the entry of meta_dds the mapping stands at, 0 outside meta_dds
    ei,        \* the element for_each stands at, 0 outside an array
    seen,      \* required_key "meta_dds" was met
    thrown,    \* the exception in flight
    raised,    \* how many rejections and exceptions the load has raised
    outcome    \* what the caller receives: a manifest or an error

vars == <<data, ret, pc, ri, ni, ei, seen, thrown, raised, outcome>>

Frame ==
    [ret |-> ret, pc |-> pc, ri |-> ri, ni |-> ni, ei |-> ei, seen |-> seen,
     thrown |-> thrown, raised |-> raised, outcome |-> outcome]

Becomes(s) ==
    /\ ret' = s.ret /\ pc' = s.pc /\ ri' = s.ri /\ ni' = s.ni /\ ei' = s.ei
    /\ seen' = s.seen /\ thrown' = s.thrown /\ raised' = s.raised
    /\ outcome' = s.outcome
    /\ UNCHANGED data

Init ==
    /\ \E c \in Costs :
       \E d \in ListVals(c[1]), t \in ListVals(c[2]),
          md \in ListVals(c[3]), mt \in ListVals(c[4]) :
       \E hasMeta \in BOOLEAN :
          /\ (md # Absent \/ mt # Absent) => hasMeta
          /\ data \in Documents(d, t, md, mt, hasMeta)
    /\ ret = StartFrame.ret /\ pc = StartFrame.pc
    /\ ri = StartFrame.ri /\ ni = StartFrame.ni /\ ei = StartFrame.ei
    /\ seen = StartFrame.seen /\ thrown = StartFrame.thrown
    /\ raised = StartFrame.raised /\ outcome = StartFrame.outcome

IfKey       == AtListKey(data, Frame)   /\ Becomes(if_key(data, Frame))
RequiredKey == AtMetaDds(data, Frame)   /\ Becomes(required_key(data, Frame))
ForEach     == AtElement(data, Frame)   /\ Becomes(for_each(data, Frame))
ForEachEnd  == AtArrayEnd(data, Frame)  /\ Becomes(for_each_end(data, Frame))
NestedEnd   == AtNestedEnd(data, Frame) /\ Becomes(nested_end(data, Frame))
MappingEnd  == AtRootEnd(data, Frame)   /\ Becomes(mapping_end(data, Frame))
Catch       == pc = "threw"             /\ Becomes(catch(data, Frame))

Next ==
    \/ IfKey
    \/ RequiredKey
    \/ ForEach
    \/ ForEachEnd
    \/ NestedEnd
    \/ MappingEnd
    \/ Catch

Spec == Init /\ [][Next]_vars

Done == pc = "done"
Loaded == Done /\ outcome.manifest # <<>>
Failure == Done /\ outcome.err # <<>>

----------------------------------------------------------------------------
(* What a document holds, read off the document alone *)

Range(s) == {s[i] : i \in DOMAIN s}

HasKey(es, k) == \E i \in DOMAIN es : es[i].key = k
ValOf(es, k)  == IF HasKey(es, k) THEN es[CHOOSE i \in DOMAIN es : es[i].key = k].val
                 ELSE Absent

Fields == {"depends", "test_depends", "meta_depends", "meta_test_depends"}

\* The value written under the key of manifest field f, Absent when omitted.
ListOf(d, f) ==
    IF f = "depends" THEN ValOf(d, "depends")
    ELSE IF f = "test_depends" THEN ValOf(d, "test_depends")
    ELSE IF ~HasKey(d, "meta_dds") THEN Absent
    ELSE IF f = "meta_depends" THEN ValOf(ValOf(d, "meta_dds").items, "depends")
    ELSE ValOf(ValOf(d, "meta_dds").items, "test_depends")

NameOfKey(f) ==
    IF f = "meta_depends" THEN "meta_dds.depends"
    ELSE IF f = "meta_test_depends" THEN "meta_dds.test_depends"
    ELSE f

Items(v) == IF is_array(v) THEN v.items ELSE <<>>

AllElems(d) == UNION {Range(Items(ListOf(d, f))) : f \in Fields}

\* The field whose key the walk stands at.
FieldAt ==
    IF ni = 0 THEN data[ri].key
    ELSE IF data[ri].val.items[ni].key = "depends" THEN "meta_depends"
    ELSE "meta_test_depends"

\* The walk ended inside the array of a list key, at element ElemAt.
StoppedAtElem == Done /\ ei >= 1
ElemAt == ListOf(data, FieldAt).items[ei]

\* Element k of the array the walk stands in.
ElemAt_(k) == ListOf(data, FieldAt).items[k]

\* The walk ended at a list key whose value it did not enter.
StoppedAtKey ==
    Done /\ ei = 0 /\ ri <= Len(data) /\ (ni > 0 \/ data[ri].key # "meta_dds")

ValidRange(v) == is_string(v) /\ Len(v.str) = 1 /\ v.str[1] \in {"1.0.0", "2.0.0"}

ValidSpecifier(e) ==
    /\ is_string(e) /\ Len(e.str) = 3 /\ e.str[2] = "@"
    /\ e.str[1] # "@" /\ ValidRange(Str(<<e.str[3]>>))

\* An element load accepts: a valid specifier string, or an object all of
\* whose values are valid range strings.
ValidElem(e) ==
    \/ ValidSpecifier(e)
    \/ is_object(e) /\ \A i \in DOMAIN e.items : ValidRange(e.items[i].val)

ValidList(v) == is_array(v) /\ \A i \in DOMAIN v.items : ValidElem(v.items[i])

\* The first entry of an object that is not a valid range string, 0 if none.
FirstBad(e) ==
    IF \A i \in DOMAIN e.items : ValidRange(e.items[i].val) THEN 0
    ELSE CHOOSE i \in DOMAIN e.items :
            /\ ~ValidRange(e.items[i].val)
            /\ \A j \in 1..(i - 1) : ValidRange(e.items[j].val)

\* s occurs in msg.
Mentions(msg, s) ==
    \E i \in 0..(Len(msg) - Len(s)) : SubSeq(msg, i + 1, i + Len(s)) = s

TheError == outcome.err[1]
TheManifest == outcome.manifest[1]

InvalidPkgManifest(msg) == user_error("invalid_pkg_manifest", msg)

----------------------------------------------------------------------------
(* Claims *)

NoMetaDds == ~HasKey(data, "meta_dds")

MissingMetaDdsError == InvalidPkgManifest(MissingMetaDds)

RootListsValid ==
    /\ HasKey(data, "depends") => ValidList(ValOf(data, "depends"))
    /\ HasKey(data, "test_depends") => ValidList(ValOf(data, "test_depends"))

\* C1 as stated: whenever the root has no meta_dds key, load fails with the
\* missing-meta_dds error, whatever the other root entries are.
C1_AsStated ==
    (Done /\ NoMetaDds) => (Failure /\ TheError = MissingMetaDdsError)

\* C1, amended: whenever the root has no meta_dds key, load fails; the error
\* is the missing-meta_dds rejection (its message mentions meta_dds) exactly
\* when every depends / test_depends present at the root is a valid array of
\* dependencies; otherwise the walk stopped inside that entry and its error
\* is the one reported.
C1_MissingMetaDds ==
    (Done /\ NoMetaDds) =>
        /\ Failure
        /\ RootListsValid =>
              /\ TheError = MissingMetaDdsError
              /\ Mentions(TheError.msg, <<"meta_dds">>)
              /\ ri > Len(data)
        /\ ~RootListsValid =>
              /\ TheError # MissingMetaDdsError
              /\ ri <= Len(data)
              /\ ~ValidList(data[ri].val)
              /\ \A i \in 1..(ri - 1) : ValidList(data[i].val)

C1_Witness ==
    /\ Failure /\ NoMetaDds
    /\ ret.depends # <<>>
    /\ TheError = MissingMetaDdsError

\* The dependency an entry of an object element declares.
EntryDep(en) == Dependency(en.key, parse_restricted(en.val.str))

\* The dependencies an element declares, in order, as records of field f.
DepsOfElem(f, e) ==
    IF is_string(e) THEN <<Stored(f, parse_depends_string(e.str).dep)>>
    ELSE [i \in DOMAIN e.items |-> Stored(f, EntryDep(e.items[i]))]

RECURSIVE DepsOfItems(_, _, _)
DepsOfItems(f, xs, i) ==
    IF i > Len(xs) THEN <<>>
    ELSE DepsOfElem(f, xs[i]) \o DepsOfItems(f, xs, i + 1)

\* What the elements written under the key of field f declare.
Declared(d, f) == DepsOfItems(f, Items(ListOf(d, f)), 1)

\* C2 as stated: on a successful load every manifest field holds exactly the
\* dependencies of the elements written under its own key, in both spellings.
C2_AsStated ==
    Loaded => \A f \in Fields : TheManifest[f] = Declared(data, f)


----------------------------------------------------------------------------
\* The string spelling n@v of a single-entry object {n: v}.
Specifier(e) == Str(e.items[1].key \o <<"@">> \o e.items[1].val.str)

SingleValidObj(e) == is_object(e) /\ Len(e.items) = 1 /\ ValidRange(e.items[1].val)

TwinList(v) ==
    IF ~is_array(v) THEN v
    ELSE Arr([i \in DOMAIN v.items |->
                IF SingleValidObj(v.items[i]) THEN Specifier(v.items[i])
                ELSE v.items[i]])

TwinEntries(es) ==
    [i \in DOMAIN es |->
        IF es[i].key = "meta_dds"
        THEN Entry("meta_dds",
                   Obj([j \in DOMAIN es[i].val.items |->
                          Entry(es[i].val.items[j].key,
                                TwinList(es[i].val.items[j].val))]))
        ELSE Entry(es[i].key, TwinList(es[i].val))]

\* The document with every single-entry object element respelled as a string.
Twin(d) == TwinEntries(d)

\* C3 as stated: a document whose object elements are all single-entry
\* {n: v} with a valid v loads to the same result as the document that
\* holds the specifier string n@v at the same positions, under each of the
\* four dependency-list keys.
C3_AsStated ==
    (Done /\ \A e \in AllElems(data) : is_object(e) => SingleValidObj(e))
        => outcome = load(Twin(data))

----------------------------------------------------------------------------
\* The shapes C4 names: a string, or a single-entry object with a string value.
TwoShapes(e) ==
    \/ is_string(e)
    \/ is_object(e) /\ Len(e.items) = 1 /\ is_string(e.items[1].val)

\* The shapes the handlers accept: a string, or an object, of any number of
\* entries, whose values are all strings.
AcceptedShape(e) ==
    \/ is_string(e)
    \/ is_object(e) /\ \A i \in DOMAIN e.items : is_string(e.items[i].val)

EveryListIsArray == \A f \in Fields : ListOf(data, f) # Absent => is_array(ListOf(data, f))

\* C4 as stated: load rejects every document that holds an element which is
\* neither a string nor a single-entry object with a string value.
C4_AsStated ==
    (Done /\ \E e \in AllElems(data) : ~TwoShapes(e)) => Failure

\* C4, amended: a dependency element is accepted when it is a string or an
\* object, of any number of entries (none, one or several), whose values are
\* all strings. Every other element is rejected and no manifest is returned:
\* a number, bool, null or array with "<key> should be an array of strings
\* or objects", an object entry whose value is not a string with "Dependency
\* object values should be strings". A document whose elements are all valid
\* strings or objects of valid range strings loads, one dependency per
\* object entry.
C4_ElementShapes ==
    /\ Loaded => \A e \in AllElems(data) : AcceptedShape(e)
    /\ (Done /\ \E e \in AllElems(data) : ~AcceptedShape(e)) => Failure
    /\ (Done /\ HasKey(data, "meta_dds") /\ \A f \in Fields :
            ListOf(data, f) # Absent => ValidList(ListOf(data, f))) => Loaded
    /\ StoppedAtElem =>
          /\ Failure /\ outcome.manifest = <<>>
          /\ (~is_string(ElemAt) /\ ~is_object(ElemAt)) =>
                TheError = InvalidPkgManifest(
                    <<NameOfKey(FieldAt), "should be an array of strings or objects">>)
          /\ (is_object(ElemAt) /\ ~is_string(ElemAt.items[FirstBad(ElemAt)].val)) =>
                TheError = InvalidPkgManifest(
                    <<"Dependency object values should be strings">>)

C4_Witness ==
    /\ Loaded
    /\ \E e \in AllElems(data) : is_object(e) /\ Len(e.items) = 2
    /\ Len(TheManifest.depends) = 2

----------------------------------------------------------------------------
\* The range string and the dependency name of the element the walk stopped
\* at, when what stopped it is a range string.
BadRangeAt ==
    IF is_string(ElemAt)
    THEN [name |-> <<ElemAt.str[1]>>, range |-> SubSeq(ElemAt.str, 3, Len(ElemAt.str))]
    ELSE [name  |-> ElemAt.items[FirstBad(ElemAt)].key,
          range |-> ElemAt.items[FirstBad(ElemAt)].val.str]

StoppedAtRange ==
    /\ StoppedAtElem
    /\ \/ is_string(ElemAt)
       \/ is_object(ElemAt) /\ is_string(ElemAt.items[FirstBad(ElemAt)].val)

HasBadRange(e) ==
    \/ is_string(e) /\ ~ValidSpecifier(e)
    \/ is_object(e) /\ \E i \in DOMAIN e.items :
           is_string(e.items[i].val) /\ ~ValidRange(e.items[i].val)

\* C5: a document that holds an element with a rejected version-range string
\* fails to load; and when the walk stops at such an element, in the object
\* spelling or the string spelling, under any of the four keys, the error
\* the caller receives is invalid_version_range_string with a message that
\* names the range string and the dependency's name, not invalid_pkg_manifest.
C5_InvalidRange ==
    /\ (Done /\ \E e \in AllElems(data) : HasBadRange(e)) => Failure
    /\ StoppedAtRange =>
          /\ Failure
          /\ TheError.type = "user_error"
          /\ TheError.errc = "invalid_version_range_string"
          /\ Mentions(TheError.msg, BadRangeAt.range)
          /\ Mentions(TheError.msg, BadRangeAt.name)

C5_Witness ==
    /\ StoppedAtRange /\ is_object(ElemAt) /\ ni > 0
    /\ TheError.errc = "invalid_version_range_string"

----------------------------------------------------------------------------
\* A root entry the walk passes without a violation.
ValidRootEntry(en) ==
    IF en.key = "meta_dds"
    THEN \A j \in DOMAIN en.val.items : ValidList(en.val.items[j].val)
    ELSE ValidList(en.val)

\* Everything the walk passed before the place it stands at holds no
\* violation.
NoEarlierViolation ==
    /\ \A i \in 1..(ri - 1) : ValidRootEntry(data[i])
    /\ ni > 0 => \A j \in 1..(ni - 1) : ValidList(data[ri].val.items[j].val)
    /\ ei > 0 => \A k \in 1..(ei - 1) : ValidElem(ElemAt_(k))

\* The place the walk stands at is a violation.
ViolationHere ==
    IF ei > 0 THEN ~ValidElem(ElemAt)
    ELSE IF ri <= Len(data) THEN StoppedAtKey /\ ~is_array(ListOf(data, FieldAt))
    ELSE NoMetaDds

\* C6: a load ends with a manifest or with one error, never both and never
\* neither, and nothing is handed out before it ends. A manifest is the
\* whole of ret after a walk that met no violation and visited every entry.
\* An error is the only violation raised, the first one in walk order, and
\* comes with no manifest, whatever was appended to ret before it.
C6_OneOutcome ==
    /\ ~Done => outcome = Outcome(<<>>, <<>>)
    /\ Done => Len(outcome.manifest) + Len(outcome.err) = 1
    /\ Loaded => /\ raised = 0 /\ thrown = NoError
                 /\ TheManifest = ret
                 /\ ri > Len(data)
                 /\ \A i \in DOMAIN data : ValidRootEntry(data[i])
    /\ Failure => /\ raised = 1
                  /\ outcome.manifest = <<>>
                  /\ TheError.msg = thrown.msg
                  /\ NoEarlierViolation
                  /\ ViolationHere

C6_Witness ==
    /\ Failure
    /\ ret # EmptyManifest
    /\ ri <= Len(data)

----------------------------------------------------------------------------
NoListKeys == \A f \in Fields : ListOf(data, f) = Absent

\* C7 as stated: for a root object with a meta_dds object, an omitted
\* dependency-list key is no error and its manifest field is the empty
\* sequence; with the four keys omitted load succeeds, and fails only if
\* meta_dds itself is missing.
C7_AsStated ==
    /\ (Done /\ NoListKeys) =>
          IF HasKey(data, "meta_dds")
          THEN Loaded /\ TheManifest = EmptyManifest
          ELSE Failure /\ TheError = MissingMetaDdsError
    /\ Loaded => \A f \in Fields : ListOf(data, f) = Absent => TheManifest[f] = <<>>

----------------------------------------------------------------------------
\* C8: a document in which one of the four dependency-list keys holds a
\* value that is not an array fails to load; and when the walk reaches such
\* a key, the error is invalid_pkg_manifest with the message that this key
\* should be an array of dependencies, and no element of the value is
\* visited.
C8_ShouldBeArray ==
    /\ (Done /\ ~EveryListIsArray) => Failure
    /\ StoppedAtKey =>
          /\ ~is_array(ListOf(data, FieldAt))
          /\ Failure /\ outcome.manifest = <<>>
          /\ TheError = InvalidPkgManifest(
                <<NameOfKey(FieldAt), "should be an array of dependencies">>)
    /\ (pc = "for_each" \/ ei >= 1) => is_array(ListOf(data, FieldAt))

C8_Witness ==
    /\ StoppedAtKey /\ ni > 0
    /\ ListOf(data, FieldAt).tag = "object"
    /\ TheError.errc = "invalid_pkg_manifest"

----------------------------------------------------------------------------
MetaFields == {"meta_depends", "meta_test_depends"}

\* C9 as stated: every element of a dependency list under meta_dds yields
\* exactly one meta_dependency in that list's field: a string element one
\* with an empty cmake_config, an object element one whose cmake_config
\* holds the entries other than the one that supplies the dependency
\* (stated for documents whose object elements have at least one entry).
C9_AsStated ==
    (Loaded /\ \A e \in AllElems(data) : is_object(e) => e.items # <<>>)
    => \A f \in MetaFields :
        LET xs == Items(ListOf(data, f)) IN
        /\ Len(TheManifest[f]) = Len(xs)
        /\ \A i \in DOMAIN xs :
              IF is_string(xs[i])
              THEN TheManifest[f][i] = MetaDep(parse_depends_string(xs[i].str).dep, <<>>)
              ELSE Len(TheManifest[f][i].cmake_config) = Len(xs[i].items) - 1

----------------------------------------------------------------------------
\* The dependency of a manifest entry of field f.
DepOf(f, x) == IF f \in MetaFields THEN x.dep ELSE x

Deps(m, f) == [i \in DOMAIN m[f] |-> DepOf(f, m[f][i])]

\* The dependencies the arrays of a mapping declare, in the order of its
\* entries; meta_dds contributes those of its own mapping.
RECURSIVE DocDeps(_, _)
DocDeps(es, i) ==
    IF i > Len(es) THEN <<>>
    ELSE (IF es[i].key = "meta_dds" THEN DocDeps(es[i].val.items, 1)
          ELSE DepsOfItems("depends", Items(es[i].val), 1))
         \o DocDeps(es, i + 1)

\* flat is an interleaving of the sequences of ls that keeps the order of each.
RECURSIVE Interleaves(_, _)
Interleaves(flat, ls) ==
    IF flat = <<>> THEN \A i \in DOMAIN ls : ls[i] = <<>>
    ELSE \E i \in DOMAIN ls :
            /\ ls[i] # <<>>
            /\ Head(ls[i]) = Head(flat)
            /\ Interleaves(Tail(flat), [ls EXCEPT ![i] = Tail(@)])

\* C10: on a successful load the four manifest lists hold, in all, as many
\* entries as the four arrays hold string elements and object entries, and
\* the dependencies of the document taken in document order are an
\* interleaving of the four lists: none lost, none twice, each list in the
\* order of the elements that produced its entries.
C10_NothingLostOrReordered ==
    Loaded =>
        LET m == TheManifest
            lists == <<Deps(m, "depends"), Deps(m, "test_depends"),
                       Deps(m, "meta_depends"), Deps(m, "meta_test_depends")>>
        IN /\ Len(lists[1]) + Len(lists[2]) + Len(lists[3]) + Len(lists[4])
                = Len(DocDeps(data, 1))
           /\ Interleaves(DocDeps(data, 1), lists)

C10_Witness ==
    /\ Loaded
    /\ Len(TheManifest.depends) = 2
    /\ TheManifest.depends[1] # TheManifest.depends[2]
    /\ \E e \in AllElems(data) : is_string(e)
    /\ \E e \in AllElems(data) : is_object(e) /\ e.items # <<>>

====
